---- MODULE Spec2Model ----
(***************************************************************************)
(* A model of src/app.py (Gorilla 2025): the destructible skyline, the     *)
(* projectile integrator, the per-tick collision resolution and the        *)
(* turn / round / match state machine of GorillaGame.                      *)
(*                                                                         *)
(* Numbers.  Python floats are modelled in fixed point: positions are in   *)
(* hundredths of a pixel, velocities and the wind in hundredths of a pixel *)
(* per second, and a frame's dt in milliseconds.  int() of a float is      *)
(* truncation toward zero (ToInt).  The random module is modelled as a     *)
(* family of deterministic streams Rand(seed, k), the seed being the       *)
(* nondeterministic input of every round setup.                            *)
(***************************************************************************)
EXTENDS Integers, Sequences, FiniteSets, TLC

\* ------------------------------------------------------------ constants
SCREEN_WIDTH == 1200
SCREEN_HEIGHT == 720
GRAVITY == 260
\* DRAG_COEFF = 0.55, as hundredths
DRAG_COEFF == 55
EXPLOSION_RADIUS == 38
MAX_WIND == 140

\* fixed-point scale: units per pixel
Scale == 100

\* ------------------------------------------------------------ bounds
\* round setups draw their random stream from 1..NumSeeds
NumSeeds == 2
\* accepted throws are taken only while the round has fewer carved craters
MaxCarves == 1
\* accepted throws are taken only while the score store holds fewer entries
MaxScores == 1
\* the crater bound of the terrain specification, which throws fewer shots
MaxTerrainCarves == 2
\* the random streams whose skylines are generated and examined
NumSkylines == 40

\* ------------------------------------------------------------ arithmetic
Abs(a) == IF a < 0 THEN -a ELSE a

Min(a, b) == IF a < b THEN a ELSE b

Max(a, b) == IF a > b THEN a ELSE b

\* a / b rounded to the nearest integer (b > 0), as float arithmetic rounds
RoundDiv(a, b) == (2 * a + b) \div (2 * b)

\* int(v) of a float held in hundredths: truncation toward zero
ToInt(v) == IF v >= 0 THEN v \div Scale ELSE -((-v) \div Scale)

\* ------------------------------------------------------------ random
\* the k-th draw of stream seed, in 0..1008
Rand(seed, k) == ((seed * 7919 + k * 911 + 17) * (seed * 31 + k * 7 + 11)) % 1009

\* random.randint(lo, hi)
RandInt(seed, k, lo, hi) == lo + (Rand(seed, k) % (hi - lo + 1))

\* random.uniform(lo, hi), lo and hi in hundredths
RandUniform(seed, k, lo, hi) == lo + ((hi - lo) * Rand(seed, k)) \div 1009

\* random.choice(s)
RandChoice(seed, k, s) == s[1 + (Rand(seed, k) % Len(s))]

\* ------------------------------------------------------------ rectangles
\* pygame.Rect as [x, y, w, h]
Rect(x, y, w, h) == [x |-> x, y |-> y, w |-> w, h |-> h]

CenterX(r) == r.x + (r.w \div 2)

\* Rect.collidepoint: left and top edges inside, right and bottom outside
CollidePoint(r, px, py) ==
    /\ r.x <= px /\ px < r.x + r.w
    /\ r.y <= py /\ py < r.y + r.h

\* pygame.draw.rect(..., border_radius=4): the four corners are rounded
InRoundedRect(r, px, py) ==
    /\ CollidePoint(r, px, py)
    /\ LET rad == Min(4, Min(r.w \div 2, r.h \div 2))
           dx == IF px < r.x + rad THEN (r.x + rad) - px
                 ELSE IF px > r.x + r.w - 1 - rad THEN px - (r.x + r.w - 1 - rad)
                 ELSE 0
           dy == IF py < r.y + rad THEN (r.y + rad) - py
                 ELSE IF py > r.y + r.h - 1 - rad THEN py - (r.y + r.h - 1 - rad)
                 ELSE 0
       IN  (dx = 0) \/ (dy = 0) \/ (dx * dx + dy * dy <= rad * rad)

\* ------------------------------------------------------------ Skyline
\* Skyline.generate: the buildings from x on, i counting them
RECURSIVE GenerateFrom(_, _, _)
GenerateFrom(seed, x, i) ==
    IF x >= SCREEN_WIDTH THEN << >>
    ELSE LET drawn == RandInt(seed, 2 * i, 55, 110)
             building_width == IF x + drawn > SCREEN_WIDTH
                               THEN SCREEN_WIDTH - x ELSE drawn
             height == RandInt(seed, 2 * i + 1, 120, 360)
         IN  << Rect(x, SCREEN_HEIGHT - height, building_width, height) >>
             \o GenerateFrom(seed, x + building_width, i + 1)

\* a generate whose first building starts 10 pixels in
GenerateShifted(seed) == GenerateFrom(seed, 10, 0)

\* Skyline.generate: x = 0 before the loop
Generate(seed) == GenerateFrom(seed, 0, 0)

\* a carve of half the radius
InCircleHalfRadius(c, px, py) ==
    4 * ((px - c[1]) * (px - c[1]) + (py - c[2]) * (py - c[2]))
        <= EXPLOSION_RADIUS * EXPLOSION_RADIUS

\* the pixels pygame.draw.circle(surface, (0,0,0,0), center, radius) clears
InCircle(c, px, py) ==
    (px - c[1]) * (px - c[1]) + (py - c[2]) * (py - c[2])
        <= EXPLOSION_RADIUS * EXPLOSION_RADIUS

\* the surface's alpha at (px, py) is above 10: inside a drawn building and
\* in no crater carved since
Opaque(blds, crv, px, py) ==
    /\ \E i \in 1..Len(blds) : InRoundedRect(blds[i], px, py)
    /\ \A c \in crv : ~InCircle(c, px, py)

\* a bounds test that lets every point through
InFieldAlways(px, py) == TRUE

\* the test Skyline.collides makes before it reads the surface
InField(px, py) == 0 <= px /\ px < SCREEN_WIDTH /\ 0 <= py /\ py < SCREEN_HEIGHT

\* Skyline.collides
Collides(blds, crv, px, py) ==
    IF ~InField(px, py) THEN FALSE ELSE Opaque(blds, crv, px, py)

\* Surface.get_at raises IndexError for a pixel outside the surface, which
\* Skyline.__init__ makes SCREEN_WIDTH x SCREEN_HEIGHT
GetAtRaises(px, py) ==
    ~(0 <= px /\ px < SCREEN_WIDTH /\ 0 <= py /\ py < SCREEN_HEIGHT)

\* Skyline.collides raises: the point passed the test and get_at raised
CollidesRaises(px, py) == IF ~InField(px, py) THEN FALSE ELSE GetAtRaises(px, py)

\* a carve that redraws the surface first: only the newest crater remains
CarveExplosionRedraws(crv, center) == {center}

\* Skyline.carve_explosion
CarveExplosion(crv, center) == crv \cup {center}

\* ------------------------------------------------------------ Gorilla
\* the 42 x 48 box whose midbottom is (centerx of the building, top + 2)
GorillaOn(b) == Rect(CenterX(b) - 21, (b.y + 2) - 48, 42, 48)

\* the direction of gorilla idx: +1 for the left one, -1 for the right one
Direction(idx) == IF idx = 0 THEN 1 ELSE -1

\* Gorilla.throw_position, in pixels
ThrowPosition(g, idx) ==
    [x |-> CenterX(g) + Direction(idx) * ((g.w \div 2) + 6), y |-> g.y + 12]

\* the buildings _place_gorillas first lists for the left gorilla
LeftCandidates(blds) ==
    LET IsLeft(b) == CenterX(b) * 100 < SCREEN_WIDTH * 45
    IN  SelectSeq(blds, IsLeft)

\* the buildings _place_gorillas first lists for the right gorilla
RightCandidates(blds) ==
    LET IsRight(b) == CenterX(b) * 100 > SCREEN_WIDTH * 55
    IN  SelectSeq(blds, IsRight)

\* a placement that picks both buildings from the whole skyline
PlaceGorillasAnywhere(seed, blds) ==
    << GorillaOn(RandChoice(seed, 60, blds)), GorillaOn(RandChoice(seed, 61, blds)) >>

\* GorillaGame._place_gorillas
PlaceGorillas(seed, blds) ==
    LET IsLeft(b) == CenterX(b) * 100 < SCREEN_WIDTH * 45
        IsRight(b) == CenterX(b) * 100 > SCREEN_WIDTH * 55
        half == Len(blds) \div 2
        left0 == SelectSeq(blds, IsLeft)
        right0 == SelectSeq(blds, IsRight)
        left_candidates == IF left0 = << >> THEN SubSeq(blds, 1, half) ELSE left0
        right_candidates == IF right0 = << >>
                            THEN SubSeq(blds, half + 1, Len(blds)) ELSE right0
    IN  << GorillaOn(RandChoice(seed, 60, left_candidates)),
           GorillaOn(RandChoice(seed, 61, right_candidates)) >>

\* ------------------------------------------------------------ Projectile
NoProjectile == [live |-> FALSE, x |-> 0, y |-> 0, vx |-> 0, vy |-> 0, wind |-> 0]

\* 1000 * sin of 5, 10, ..., 90 degrees
SinTable == << 87, 174, 259, 342, 423, 500, 574, 643, 707,
               766, 819, 866, 906, 940, 966, 985, 996, 1000 >>

\* 1000 * math.sin(math.radians(a)), a a multiple of 5 in 5..175
SinMilli(a) == IF a <= 90 THEN SinTable[a \div 5] ELSE SinTable[(180 - a) \div 5]

\* 1000 * math.cos(math.radians(a)), a a multiple of 5 in 5..175
CosMilli(a) ==
    IF a = 90 THEN 0
    ELSE IF a < 90 THEN SinTable[(90 - a) \div 5]
    ELSE -SinTable[(a - 90) \div 5]

\* a projectile thrown backward: the horizontal velocity negated
NewProjectileBackward(start, speed, angle_deg, wind) ==
    [live |-> TRUE,
     x |-> start.x * Scale,
     y |-> start.y * Scale,
     vx |-> -RoundDiv(CosMilli(angle_deg) * speed, 1000),
     vy |-> -RoundDiv(SinMilli(angle_deg) * speed, 1000),
     wind |-> wind]

\* a projectile built without the round's wind
NewProjectileNoWind(start, speed, angle_deg, wind) ==
    [live |-> TRUE,
     x |-> start.x * Scale,
     y |-> start.y * Scale,
     vx |-> RoundDiv(CosMilli(angle_deg) * speed, 1000),
     vy |-> -RoundDiv(SinMilli(angle_deg) * speed, 1000),
     wind |-> 0]

\* Projectile.__init__: start in pixels, speed and wind in hundredths
NewProjectile(start, speed, angle_deg, wind) ==
    [live |-> TRUE,
     x |-> start.x * Scale,
     y |-> start.y * Scale,
     vx |-> RoundDiv(CosMilli(angle_deg) * speed, 1000),
     vy |-> -RoundDiv(SinMilli(angle_deg) * speed, 1000),
     wind |-> wind]

\* an update that forgets pos += vel * dt
ProjectileUpdateKeepsPosition(p, dt) ==
    LET rel_vx == p.vx - p.wind
        vx == p.vx + RoundDiv((-DRAG_COEFF) * rel_vx * dt, 100 * 1000)
        vy == p.vy + RoundDiv((GRAVITY * Scale * 100 - DRAG_COEFF * p.vy) * dt,
                              100 * 1000)
    IN  [live |-> TRUE, x |-> p.x, y |-> p.y, vx |-> vx, vy |-> vy, wind |-> p.wind]

\* Projectile.update: velocity first, then position (dt in milliseconds)
ProjectileUpdate(p, dt) ==
    LET rel_vx == p.vx - p.wind
        vx == p.vx + RoundDiv((-DRAG_COEFF) * rel_vx * dt, 100 * 1000)
        vy == p.vy + RoundDiv((GRAVITY * Scale * 100 - DRAG_COEFF * p.vy) * dt,
                              100 * 1000)
    IN  [live |-> TRUE,
         x |-> p.x + RoundDiv(vx * dt, 1000),
         y |-> p.y + RoundDiv(vy * dt, 1000),
         vx |-> vx, vy |-> vy, wind |-> p.wind]

\* ------------------------------------------------------------ inputs
\* what float(text) makes of a text field: a number, nan, inf, or ValueError
Num(v) == [k |-> "num", v |-> v]

NaN == [k |-> "nan", v |-> 0]

Inf == [k |-> "inf", v |-> 0]

Unparsable == [k |-> "bad", v |-> 0]

\* speeds in hundredths of a pixel per second
Px(v) == v * Scale

\* the (angle, speed) pairs the fire button is pressed with
ValidShots ==
    { << Num(40), Num(Px(540)) >>, << Num(5), Num(Px(335)) >>,
      << Num(90), Num(Px(255)) >>, << Num(45), Num(Px(508)) >>,
      << Num(115), Num(Px(594)) >>, << Num(80), Num(Px(1000)) >>,
      << Num(60), Num(Px(30)) >> }

OddShots ==
    { << Num(0), Num(Px(320)) >>, << Num(180), Num(Px(320)) >>,
      << Num(-45), Num(Px(320)) >>, << NaN, Num(Px(320)) >>,
      << Inf, Num(Px(320)) >>, << Unparsable, Num(Px(320)) >>,
      << Num(45), Unparsable >>, << Num(45), Num(0) >>,
      << Num(45), Num(Px(-5)) >>, << Num(60), NaN >> }

Shots == ValidShots \cup OddShots

\* the shots of the terrain specification
TerrainShots == { << Num(45), Num(Px(508)) >>, << Num(5), Num(Px(335)) >> }

\* the frame times clock.tick(60) / 1000.0 yields, in milliseconds
FrameTimes == {100}

Seeds == 1..NumSeeds

\* 0 < angle < 180 as Python evaluates it (false for nan and for inf)
AngleInRange(a) == a.k = "num" /\ 0 < a.v /\ a.v < 180

\* speed <= 0 as Python evaluates it (false for nan and for inf)
SpeedNotAbove0(s) == s.k = "num" /\ s.v <= 0

\* max(60.0, min(speed, 600.0)): min(nan, 600.0) is nan and max(60.0, nan)
\* is 60.0, min(inf, 600.0) is 600.0
ClampSpeed(s) ==
    IF s.k = "nan" THEN Px(60)
    ELSE IF s.k = "inf" THEN Px(600)
    ELSE Max(Px(60), Min(s.v, Px(600)))

\* ------------------------------------------------------------ score store
\* scores.json: missing, a JSON array of entries, text that is not JSON,
\* JSON that is not an array, or bytes that are not UTF-8
ScoreFile(kind, entries) == [kind |-> kind, entries |-> entries]

\* an entry left by an earlier run of the program
EarlierEntry == [winner |-> 1, loser |-> 0, rounds |-> << 0, 2 >>, wind |-> 0]

\* what save_score finds on disk: what this run last wrote, what an earlier
\* run left, or a damaged file
FoundOnDisk(file) ==
    {file}
    \cup { ScoreFile(k, << >>) : k \in {"bad_json", "not_array", "bad_utf8"} }
    \cup (IF file.kind = "missing"
          THEN {ScoreFile("array", << >>), ScoreFile("array", << EarlierEntry >>)}
          ELSE {})

\* GorillaGame.save_score on the file found: the file written, or the
\* exception that escapes (only json.JSONDecodeError is caught)
SaveScore(found, entry) ==
    IF found.kind = "bad_utf8" \/ found.kind = "not_array"
    THEN [raised |-> TRUE, file |-> found]
    ELSE LET data == IF found.kind = "array" THEN found.entries ELSE << >>
         IN  [raised |-> FALSE, file |-> ScoreFile("array", Append(data, entry))]

\* ------------------------------------------------------------ state
VARIABLES
    buildings,       \* skyline.buildings
    carved,          \* centres of the craters carved into skyline.surface
    gorillas,        \* the two gorillas' rects
    projectile,      \* the live projectile, or NoProjectile
    explosions,      \* the live explosions: [pos, time]
    current_player,
    wind_speed,
    round_wins,
    current_round,
    match_over,
    status_message,
    scores,          \* scores.json as this run last wrote it
    running,         \* FALSE once an exception has ended run()
    frame_time,      \* dt of run(): the last frame's time, in milliseconds
    last_event       \* the path the last handler took

vars == << buildings, carved, gorillas, projectile, explosions, current_player,
           wind_speed, round_wins, current_round, match_over, status_message,
           scores, running, frame_time, last_event >>

Status(kind, a, b) == [kind |-> kind, a |-> a, b |-> b]

\* the handler path taken; for update, the position it tested (hundredths of
\* a pixel); for handle_fire, what float() made of the two text fields
Event(kind, x, y) ==
    [kind |-> kind, x |-> x, y |-> y, angle |-> Num(0), speed |-> Num(0)]

FireEvent(kind, shot) ==
    [kind |-> kind, x |-> 0, y |-> 0, angle |-> shot[1], speed |-> shot[2]]

\* a start_round that always hands the first throw to player 0
StartingPlayerAlwaysFirst(round) == 0

\* the starting player of a round
StartingPlayer(round) == IF round % 2 = 1 THEN 0 ELSE 1

\* what the random draws of one round setup produce, for every seed:
\* skyline.generate(), _place_gorillas() and random.uniform(-MAX_WIND, MAX_WIND)
RoundSetup ==
    [seed \in Seeds |->
        [buildings |-> Generate(seed),
         gorillas |-> PlaceGorillas(seed, Generate(seed)),
         wind_speed |-> RandUniform(seed, 62, -Px(MAX_WIND), Px(MAX_WIND))]]

\* a start_round that keeps the skyline and its craters
StartRoundKeepsSkyline(seed, round) ==
    /\ UNCHANGED << buildings, carved >>
    /\ gorillas' = RoundSetup[seed].gorillas
    /\ wind_speed' = RoundSetup[seed].wind_speed
    /\ projectile' = NoProjectile
    /\ explosions' = << >>
    /\ current_player' = StartingPlayer(round)
    /\ status_message' = Status("round_start", round, StartingPlayer(round))

\* GorillaGame.start_round, for the round numbered round
StartRound(seed, round) ==
    /\ buildings' = RoundSetup[seed].buildings
    /\ carved' = {}
    /\ gorillas' = RoundSetup[seed].gorillas
    /\ wind_speed' = RoundSetup[seed].wind_speed
    /\ projectile' = NoProjectile
    /\ explosions' = << >>
    /\ current_player' = StartingPlayer(round)
    /\ status_message' = Status("round_start", round, StartingPlayer(round))

\* GorillaGame.start_match (also the R key)
StartMatch ==
    /\ running
    /\ \E seed \in Seeds : StartRound(seed, 1)
    /\ round_wins' = << 0, 0 >>
    /\ current_round' = 1
    /\ match_over' = FALSE
    /\ last_event' = Event("start_match", 0, 0)
    /\ UNCHANGED << scores, running, frame_time >>

\* GorillaGame.__init__
Init ==
    /\ \E seed \in Seeds :
          /\ buildings = RoundSetup[seed].buildings
          /\ gorillas = RoundSetup[seed].gorillas
          /\ wind_speed = RoundSetup[seed].wind_speed
    /\ carved = {}
    /\ projectile = NoProjectile
    /\ explosions = << >>
    /\ current_player = 0
    /\ round_wins = << 0, 0 >>
    /\ current_round = 1
    /\ match_over = FALSE
    /\ status_message = Status("round_start", 1, 0)
    /\ scores = ScoreFile("missing", << >>)
    /\ running = TRUE
    /\ frame_time = 0
    /\ last_event = Event("start_match", 0, 0)

\* ------------------------------------------------------------ handle_fire
\* a first test that forgets the live projectile
FireBlockedByMatchOnly == match_over

\* a first test that forgets the finished match
FireBlockedByProjectileOnly == projectile.live

\* the first test of handle_fire: the request is dropped
FireBlocked == projectile.live \/ match_over

\* the range test of handle_fire: the request is refused with a message
OutOfRange(angle, speed) == ~AngleInRange(angle) \/ SpeedNotAbove0(speed)

\* a launch that never mirrors the angle
LaunchAngleUnmirrored(angle, player) == angle

\* the angle the projectile is built with
LaunchAngle(angle, player) == IF player = 1 THEN 180 - angle ELSE angle

\* the bounds on accepted throws
ThrowsLeft(carve_cap) ==
    Cardinality(carved) < carve_cap /\ Len(scores.entries) < MaxScores

\* GorillaGame.handle_fire, the user having typed one of shots into the two
\* text fields; the fields are read only past the first test
Fire(shots, carve_cap) ==
    /\ running
    /\ IF FireBlocked
       THEN /\ last_event' = Event("fire_dropped", 0, 0)
            /\ UNCHANGED << projectile, status_message >>
       ELSE \E shot \in shots :
               /\ IF shot[1].k = "bad" \/ shot[2].k = "bad"
                  THEN /\ status_message' = Status("invalid_number", 0, 0)
                       /\ last_event' = FireEvent("fire_refused", shot)
                       /\ UNCHANGED projectile
                  ELSE IF OutOfRange(shot[1], shot[2])
                  THEN /\ status_message' = Status("invalid_range", 0, 0)
                       /\ last_event' = FireEvent("fire_refused", shot)
                       /\ UNCHANGED projectile
                  ELSE /\ ThrowsLeft(carve_cap)
                       /\ projectile' =
                             NewProjectile(
                                 ThrowPosition(gorillas[current_player + 1],
                                               current_player),
                                 ClampSpeed(shot[2]),
                                 LaunchAngle(shot[1].v, current_player),
                                 wind_speed)
                       /\ status_message' = Status("fired", current_player, 0)
                       /\ last_event' = FireEvent("fired", shot)
    /\ UNCHANGED << buildings, carved, gorillas, explosions, current_player,
                    wind_speed, round_wins, current_round, match_over, scores,
                    running, frame_time >>

HandleFire == Fire(Shots, MaxCarves)

HandleFireTerrain == Fire(TerrainShots, MaxTerrainCarves)

\* ------------------------------------------------------------ update
\* the gorillas whose rect holds the point, as enumerate(self.gorillas) meets them
HitIndexes(gors, px, py) == { idx \in 0..1 : CollidePoint(gors[idx + 1], px, py) }

FirstHit(gors, px, py) == IF 0 \in HitIndexes(gors, px, py) THEN 0 ELSE 1

\* an update that tests the gorillas before the skyline
OutcomeGorillaFirst(blds, crv, gors, px, py) ==
    IF px < 0 \/ px >= SCREEN_WIDTH \/ py >= SCREEN_HEIGHT THEN "out_of_bounds"
    ELSE IF HitIndexes(gors, px, py) # {} THEN "gorilla_hit"
    ELSE IF py >= 0 /\ Collides(blds, crv, px, py) THEN "terrain_hit"
    ELSE "continue"

\* the branch GorillaGame.update takes for the pixel (px, py)
Outcome(blds, crv, gors, px, py) ==
    IF px < 0 \/ px >= SCREEN_WIDTH \/ py >= SCREEN_HEIGHT THEN "out_of_bounds"
    ELSE IF py >= 0 /\ Collides(blds, crv, px, py) THEN "terrain_hit"
    ELSE IF HitIndexes(gors, px, py) # {} THEN "gorilla_hit"
    ELSE "continue"

\* a credit rule without the self-hit case
WinnerIsThrower(idx, player) == player

\* winner = current_player if idx != current_player else 1 - current_player
Winner(idx, player) == IF idx # player THEN player ELSE 1 - player

\* Explosion.update and the removal of the explosions no longer alive
UpdateExplosions(exps, dt) ==
    LET Aged(e) == [e EXCEPT !.time = @ + dt]
        Alive(e) == e.time + dt < 700
    IN  [i \in 1..Len(SelectSeq(exps, Alive)) |-> Aged(SelectSeq(exps, Alive)[i])]

\* GorillaGame.spawn_explosion
SpawnExplosion(exps, px, py) == Append(exps, [x |-> px, y |-> py, time |-> 0])

\* a switch_turn that reports the miss and keeps the turn
SwitchTurnKeepsPlayer(kind) ==
    /\ current_player' = current_player
    /\ status_message' = Status(kind, current_player, current_player)

\* GorillaGame.switch_turn, message naming the player who threw
SwitchTurn(kind) ==
    IF match_over
    THEN UNCHANGED << current_player, status_message >>
    ELSE /\ current_player' = 1 - current_player
         /\ status_message' = Status(kind, current_player, 1 - current_player)

\* a threshold of three round wins
MatchWonAtThree(wins) == wins >= 3

\* the threshold test of resolve_hit
MatchWon(wins) == wins >= 2

\* a winning hit that leaves the projectile in flight
ResolveHitKeepsProjectile(winner, loser, px, py) ==
    LET wins == [round_wins EXCEPT ![winner + 1] = @ + 1]
        entry == [winner |-> winner, loser |-> loser, rounds |-> wins,
                  wind |-> wind_speed]
    IN  /\ round_wins' = wins
        /\ IF MatchWon(wins[winner + 1])
           THEN /\ match_over' = TRUE
                /\ projectile' = projectile
                /\ explosions' = SpawnExplosion(explosions, px, py)
                /\ \E found \in FoundOnDisk(scores) :
                      LET saved == SaveScore(found, entry)
                      IN  /\ scores' = saved.file
                          /\ running' = ~saved.raised
                          /\ status_message' =
                                IF saved.raised THEN Status("touche", winner, loser)
                                ELSE Status("match_won", winner, loser)
                /\ UNCHANGED << buildings, carved, gorillas, current_player,
                                wind_speed, current_round >>
           ELSE /\ current_round' = current_round + 1
                /\ \E seed \in Seeds : StartRound(seed, current_round + 1)
                /\ UNCHANGED << match_over, scores, running >>

\* GorillaGame.resolve_hit, after the explosion at (px, py) is spawned
ResolveHit(winner, loser, px, py) ==
    LET wins == [round_wins EXCEPT ![winner + 1] = @ + 1]
        entry == [winner |-> winner, loser |-> loser, rounds |-> wins,
                  wind |-> wind_speed]
    IN  /\ round_wins' = wins
        /\ IF MatchWon(wins[winner + 1])
           THEN /\ match_over' = TRUE
                /\ projectile' = NoProjectile
                /\ explosions' = SpawnExplosion(explosions, px, py)
                /\ \E found \in FoundOnDisk(scores) :
                      LET saved == SaveScore(found, entry)
                      IN  /\ scores' = saved.file
                          /\ running' = ~saved.raised
                          /\ status_message' =
                                IF saved.raised THEN Status("touche", winner, loser)
                                ELSE Status("match_won", winner, loser)
                /\ UNCHANGED << buildings, carved, gorillas, current_player,
                                wind_speed, current_round >>
           ELSE /\ current_round' = current_round + 1
                /\ \E seed \in Seeds : StartRound(seed, current_round + 1)
                /\ UNCHANGED << match_over, scores, running >>

\* GorillaGame.update for a frame of dt milliseconds
Update ==
    /\ running
    /\ \E dt \in FrameTimes :
          /\ frame_time' = dt
          /\ IF projectile.live
             THEN LET p == ProjectileUpdate(projectile, dt)
                      px == ToInt(p.x)
                      py == ToInt(p.y)
                      out == Outcome(buildings, carved, gorillas, px, py)
                  IN  /\ last_event' = Event(out, p.x, p.y)
                      /\ CASE out = "out_of_bounds" ->
                                /\ projectile' = NoProjectile
                                /\ SwitchTurn("fell")
                                /\ UNCHANGED << buildings, carved, gorillas, explosions,
                                                wind_speed, round_wins, current_round,
                                                match_over, scores, running >>
                           [] out = "terrain_hit" ->
                                /\ carved' = CarveExplosion(carved, << px, py >>)
                                /\ explosions' = SpawnExplosion(explosions, px, py)
                                /\ projectile' = NoProjectile
                                /\ SwitchTurn("hit_building")
                                /\ UNCHANGED << buildings, gorillas, wind_speed,
                                                round_wins, current_round, match_over,
                                                scores, running >>
                           [] out = "gorilla_hit" ->
                                LET idx == FirstHit(gorillas, px, py)
                                IN  ResolveHit(Winner(idx, current_player), idx, px, py)
                           [] OTHER ->
                                /\ projectile' = p
                                /\ explosions' = UpdateExplosions(explosions, dt)
                                /\ UNCHANGED << buildings, carved, gorillas,
                                                current_player, wind_speed, round_wins,
                                                current_round, match_over,
                                                status_message, scores, running >>
             ELSE /\ explosions' = UpdateExplosions(explosions, dt)
                  /\ last_event' = Event("idle", 0, 0)
                  /\ UNCHANGED << buildings, carved, gorillas, projectile,
                                  current_player, wind_speed, round_wins,
                                  current_round, match_over, status_message, scores,
                                  running >>

\* ------------------------------------------------------------ specification
Next == HandleFire \/ Update \/ StartMatch

Spec == Init /\ [][Next]_vars

\* the same program thrown fewer shots, and more of them per round
NextTerrain == HandleFireTerrain \/ Update \/ StartMatch

TerrainSpec == Init /\ [][NextTerrain]_vars

\* run() calls update once per frame for as long as it runs
FairSpec == Spec /\ WF_vars(Update)

\* the frame times of the flight specification: the 60 frames per second cap
\* of clock.tick(60) and slower frames, each held for a whole flight
FlightTimes == {16, 17, 20, 33, 50, 100, 200}

\* player 0 has thrown at angle 45 and speed 320 in a round whose wind is 0
FlightInit ==
    /\ \E seed \in Seeds :
          /\ buildings = RoundSetup[seed].buildings
          /\ gorillas = RoundSetup[seed].gorillas
          /\ projectile =
                NewProjectile(ThrowPosition(RoundSetup[seed].gorillas[1], 0),
                              ClampSpeed(Num(Px(320))), LaunchAngle(45, 0), 0)
    /\ frame_time \in FlightTimes
    /\ wind_speed = 0
    /\ carved = {}
    /\ explosions = << >>
    /\ current_player = 0
    /\ round_wins = << 0, 0 >>
    /\ current_round = 1
    /\ match_over = FALSE
    /\ status_message = Status("fired", 0, 0)
    /\ scores = ScoreFile("missing", << >>)
    /\ running = TRUE
    /\ last_event = FireEvent("fired", << Num(45), Num(Px(320)) >>)

\* Projectile.update alone, frame after frame at one frame time, until the
\* projectile is below the field
FlightTick ==
    /\ running
    /\ projectile.live
    /\ projectile.y < SCREEN_HEIGHT * Scale
    /\ projectile' = ProjectileUpdate(projectile, frame_time)
    /\ last_event' = Event("continue", projectile'.x, projectile'.y)
    /\ UNCHANGED << buildings, carved, gorillas, explosions, current_player,
                    wind_speed, round_wins, current_round, match_over,
                    status_message, scores, running, frame_time >>

FlightNext == FlightTick

FlightSpec == FlightInit /\ [][FlightNext]_vars

\* ------------------------------------------------------------ properties
UpdateKinds == {"out_of_bounds", "terrain_hit", "gorilla_hit", "continue"}

FireKinds == {"fire_dropped", "fire_refused", "fired"}

\* start_round has just run: after start_match, or after a hit that did not
\* end the match
RoundJustSetUp ==
    last_event.kind = "start_match" \/ (last_event.kind = "gorilla_hit" /\ ~match_over)

\* C1: a fire request made while a projectile is live is dropped: the
\* projectile, the turn owner, both counters, the round number, the wind and
\* match_over stay as they were; a projectile appears only by a request
\* accepted with none live, and a live one changes only by a tick.
C1_SingleProjectile ==
    [][ /\ (projectile.live /\ last_event'.kind \in FireKinds) =>
              /\ last_event'.kind = "fire_dropped"
              /\ projectile' = projectile
              /\ current_player' = current_player
              /\ round_wins' = round_wins
              /\ current_round' = current_round
              /\ wind_speed' = wind_speed
              /\ match_over' = match_over
        /\ (projectile'.live /\ projectile' # projectile) =>
              IF projectile.live THEN last_event'.kind = "continue"
              ELSE last_event'.kind = "fired"
      ]_vars

C1_Witness == projectile.live /\ last_event.kind = "fire_dropped"

\* C2: a miss (out of bounds or terrain) destroys the projectile and hands the
\* turn to the other player within the same round; a hit on a gorilla destroys
\* it and either ends the match with the turn owner unchanged or starts the
\* next round.
C2_TurnAlternation ==
    [][ /\ last_event'.kind \in {"out_of_bounds", "terrain_hit"} =>
              /\ projectile.live /\ ~projectile'.live
              /\ current_player' = 1 - current_player
              /\ current_round' = current_round
        /\ last_event'.kind = "gorilla_hit" =>
              /\ projectile.live /\ ~projectile'.live
              /\ \/ /\ match_over'
                    /\ current_player' = current_player
                    /\ current_round' = current_round
                 \/ /\ ~match_over'
                    /\ current_round' = current_round + 1
                    /\ carved' = {}
                    /\ status_message'.kind = "round_start"
      ]_vars

C2_Witness ==
    /\ last_event.kind = "out_of_bounds" /\ ~projectile.live
    /\ current_round = 1 /\ current_player = 1

\* C3: a hit that raises a counter to 2 sets match_over in that step and
\* leaves the store an array holding exactly one entry of this match, after
\* the entries it held; a hit below 2 sets neither match_over nor the store.
C3_WinThreshold ==
    [][ last_event'.kind = "gorilla_hit" =>
          /\ (\E i \in 1..2 : round_wins'[i] = 2 /\ round_wins[i] = 1) =>
                /\ match_over'
                /\ scores'.kind = "array"
                /\ Len(scores'.entries) >= 1
                /\ scores'.entries[Len(scores'.entries)].rounds = round_wins'
                /\ \A k \in 1..(Len(scores'.entries) - 1) :
                      \/ scores'.entries[k] = EarlierEntry
                      \/ (k <= Len(scores.entries) /\ scores'.entries[k] = scores.entries[k])
          /\ (\A i \in 1..2 : round_wins'[i] < 2) =>
                (~match_over' /\ scores' = scores)
      ]_vars

\* C4: when a round has just been set up the turn owner is player 0 in an odd
\* round and player 1 in an even one.
C4_StartingPlayerByParity ==
    RoundJustSetUp => current_player = (IF current_round % 2 = 1 THEN 0 ELSE 1)

C4_Witness ==
    /\ last_event.kind = "gorilla_hit" /\ ~match_over
    /\ current_round = 2 /\ round_wins = << 1, 0 >> /\ current_player = 1

\* C5: a tick with a live projectile takes exactly one branch, in the order
\* out of bounds, terrain, gorilla, continue; a pixel that is both solid
\* terrain and inside a gorilla's box is a terrain hit: the turn flips and no
\* counter moves.
C5_OutcomePriority ==
    [][ last_event'.kind \in UpdateKinds =>
          LET px == ToInt(last_event'.x)
              py == ToInt(last_event'.y)
              oob == px < 0 \/ px >= SCREEN_WIDTH \/ py >= SCREEN_HEIGHT
              solid == Collides(buildings, carved, px, py)
              boxed == \E idx \in 1..2 : CollidePoint(gorillas[idx], px, py)
          IN  /\ projectile.live
              /\ oob =>
                    /\ last_event'.kind = "out_of_bounds"
                    /\ ~projectile'.live
                    /\ round_wins' = round_wins /\ carved' = carved
              /\ (~oob /\ solid) =>
                    /\ last_event'.kind = "terrain_hit"
                    /\ ~projectile'.live
                    /\ current_player' = 1 - current_player
                    /\ round_wins' = round_wins /\ current_round' = current_round
              /\ (~oob /\ ~solid /\ boxed) =>
                    /\ last_event'.kind = "gorilla_hit"
                    /\ ~projectile'.live
                    /\ round_wins' # round_wins
              /\ (~oob /\ ~solid /\ ~boxed) =>
                    /\ last_event'.kind = "continue"
                    /\ projectile'.live
                    /\ round_wins' = round_wins /\ carved' = carved
                    /\ current_player' = current_player
      ]_vars

C5_Witness ==
    /\ last_event.kind = "terrain_hit"
    /\ \E idx \in 1..2 :
          CollidePoint(gorillas[idx], ToInt(last_event.x), ToInt(last_event.y))
    /\ << ToInt(last_event.x), ToInt(last_event.y) >> \in carved
    /\ round_wins = << 0, 0 >> /\ current_player = 1

\* C6: a hit on a gorilla adds exactly 1 to exactly one counter: the
\* thrower's when the pixel is in the opponent's box, the opponent's when it
\* is in the thrower's own box.
C6_HitCredit ==
    [][ last_event'.kind = "gorilla_hit" =>
          LET px == ToInt(last_event'.x)
              py == ToInt(last_event'.y)
              me == current_player + 1
              other == (1 - current_player) + 1
              in_own == CollidePoint(gorillas[me], px, py)
              in_other == CollidePoint(gorillas[other], px, py)
          IN  /\ in_own \/ in_other
              /\ (in_other /\ ~in_own) =>
                    /\ round_wins'[me] = round_wins[me] + 1
                    /\ round_wins'[other] = round_wins[other]
              /\ (in_own /\ ~in_other) =>
                    /\ round_wins'[other] = round_wins[other] + 1
                    /\ round_wins'[me] = round_wins[me]
              /\ round_wins'[1] + round_wins'[2] = round_wins[1] + round_wins[2] + 1
              /\ \A i \in 1..2 : round_wins'[i] >= round_wins[i]
      ]_vars

\* a match ended by a throw into the thrower's own box
C6_Witness ==
    /\ match_over /\ status_message.kind = "match_won"
    /\ status_message.b = current_player
    /\ status_message.a = 1 - current_player
    /\ round_wins[(1 - current_player) + 1] = 2

\* C7: a request whose angle is not strictly between 0 and 180 or whose speed
\* is not positive creates no projectile and changes neither the turn, the
\* counters, the round, the wind, the terrain nor match_over; any other
\* request read with no projectile live and the match not over creates a
\* projectile launched at the speed clamped into [60, 600].
C7_FireValidation ==
    [][ last_event'.kind \in {"fire_refused", "fired"} =>
          LET a == last_event'.angle
              s == last_event'.speed
              angle_ok == a.k = "num" /\ 0 < a.v /\ a.v < 180
              speed_positive == s.k = "inf" \/ (s.k = "num" /\ s.v > 0)
              clamped == IF s.k = "inf" THEN Px(600)
                         ELSE IF s.v < Px(60) THEN Px(60)
                         ELSE IF s.v > Px(600) THEN Px(600) ELSE s.v
          IN  /\ ~projectile.live /\ ~match_over
              /\ ~(angle_ok /\ speed_positive) =>
                    /\ ~projectile'.live
                    /\ UNCHANGED << current_player, round_wins, current_round,
                                    wind_speed, buildings, carved, match_over >>
              /\ (angle_ok /\ speed_positive) =>
                    /\ projectile' =
                          NewProjectile(
                              ThrowPosition(gorillas[current_player + 1],
                                            current_player),
                              clamped,
                              IF current_player = 1 THEN 180 - a.v ELSE a.v,
                              wind_speed)
                    /\ UNCHANGED << current_player, round_wins, current_round,
                                    wind_speed, buildings, carved, match_over >>
      ]_vars

\* C8: a live projectile is eventually resolved.
C8_EventuallyResolved == projectile.live ~> ~projectile.live

C8_Witness ==
    /\ ~projectile.live /\ last_event.kind = "terrain_hit"
    /\ status_message.kind = "hit_building" /\ status_message.a = 1

\* the points whose occupancy is watched: a grid over the skyline's rows
Probes == { << 40 * i, 360 + 40 * j >> : i \in 0..29, j \in 0..8 }

\* C9: within a round no watched point that is empty becomes solid again;
\* only a round setup makes a point solid.
C9_TerrainMonotone ==
    [][ (buildings' # buildings \/ carved' # carved) =>
          \/ RoundJustSetUp'
          \/ \A pt \in Probes \cup carved \cup carved' :
                Opaque(buildings', carved', pt[1], pt[2])
                   => Opaque(buildings, carved, pt[1], pt[2])
      ]_vars

C9_Witness ==
    /\ Cardinality(carved) = 2
    /\ \A c \in carved : ~Opaque(buildings, carved, c[1], c[2])
    /\ \E pt \in Probes : ~Opaque(buildings, carved, pt[1], pt[2])
                            /\ Opaque(buildings, {}, pt[1], pt[2])

\* C10: a tick whose updated position has x outside [0, W) or y >= H is the
\* out-of-bounds miss (projectile destroyed, turn flipped, nothing carved or
\* credited); one with y < 0 and x inside [0, W) lets the projectile fly on.
C10_OutOfBounds ==
    [][ last_event'.kind \in UpdateKinds =>
          LET x == last_event'.x
              y == last_event'.y
              outside == x < 0 \/ x >= SCREEN_WIDTH * Scale \/ y >= SCREEN_HEIGHT * Scale
          IN  /\ outside =>
                    /\ last_event'.kind = "out_of_bounds"
                    /\ ~projectile'.live
                    /\ current_player' = 1 - current_player
                    /\ carved' = carved /\ round_wins' = round_wins
              /\ (~outside /\ y < 0) =>
                    /\ last_event'.kind = "continue"
                    /\ projectile'.live
      ]_vars

\* C11: once match_over is set, a fire request is dropped and the counters,
\* the round number and the turn owner stay as they are until start_match
\* runs; start_match can run in every state of the running program, a live
\* projectile included, and leaves both counters 0, round 1, match_over
\* false, no projectile, no explosion, an uncarved skyline and player 0 to
\* throw.
C11_MatchOverUntilRestart ==
    /\ [](running => ENABLED StartMatch)
    /\ [][ /\ (match_over /\ last_event'.kind # "start_match") =>
                 /\ last_event'.kind \in {"fire_dropped", "idle"}
                 /\ match_over'
                 /\ ~projectile'.live
                 /\ round_wins' = round_wins
                 /\ current_round' = current_round
                 /\ current_player' = current_player
                 /\ status_message' = status_message
           /\ last_event'.kind = "start_match" =>
                 /\ round_wins' = << 0, 0 >>
                 /\ current_round' = 1
                 /\ ~match_over'
                 /\ projectile' = NoProjectile
                 /\ explosions' = << >>
                 /\ carved' = {}
                 /\ current_player' = 0
                 /\ status_message' = Status("round_start", 1, 0)
                 /\ \E seed \in Seeds :
                       /\ buildings' = Generate(seed)
                       /\ gorillas' = PlaceGorillas(seed, Generate(seed))
         ]_vars

\* a match restarted after it was won and saved
C11_Witness ==
    /\ last_event.kind = "start_match"
    /\ scores.kind = "array" /\ Len(scores.entries) >= 1
    /\ round_wins = << 0, 0 >> /\ current_round = 1 /\ ~match_over

\* C12: when a match ends, whatever save_score finds on disk, it does not
\* raise: a file that is not UTF-8, not JSON or not a JSON array is replaced
\* by the array holding the new entry alone, and an array gets the new entry
\* appended after the entries it held.
C12_SaveScoreRecovers ==
    [][ (match_over' /\ ~match_over) =>
          LET winner == IF round_wins'[1] > round_wins[1] THEN 0 ELSE 1
              entry == [winner |-> winner, loser |-> 1 - winner,
                        rounds |-> round_wins', wind |-> wind_speed]
          IN  /\ running'
              /\ scores'.kind = "array"
              /\ Len(scores'.entries) >= 1
              /\ scores'.entries[Len(scores'.entries)] = entry
              /\ \A found \in FoundOnDisk(scores) :
                    LET saved == SaveScore(found, entry)
                        history == IF found.kind = "array" THEN found.entries
                                   ELSE << >>
                    IN  /\ ~saved.raised
                        /\ saved.file = ScoreFile("array", Append(history, entry))
      ]_vars

\* points on both sides of every edge of the field, and far from it
EdgeProbes ==
    { << x, y >> : x \in {-40, -1, 0, 600, SCREEN_WIDTH - 1, SCREEN_WIDTH, 1300},
                   y \in {-40, -1, 0, 500, SCREEN_HEIGHT - 1, SCREEN_HEIGHT, 800} }

\* C13: Skyline.collides never raises; it is false at every point outside
\* [0, W) x [0, H) and is the surface's occupancy at every point inside.
C13_CollidesBounds ==
    \A pt \in EdgeProbes \cup Probes \cup carved :
        LET inside == 0 <= pt[1] /\ pt[1] < SCREEN_WIDTH
                      /\ 0 <= pt[2] /\ pt[2] < SCREEN_HEIGHT
        IN  /\ ~CollidesRaises(pt[1], pt[2])
            /\ ~inside => ~Collides(buildings, carved, pt[1], pt[2])
            /\ inside => (Collides(buildings, carved, pt[1], pt[2])
                            <=> Opaque(buildings, carved, pt[1], pt[2]))

\* a carved skyline: solid at one probe, empty at a crater's centre
C13_Witness ==
    /\ carved # {}
    /\ \E pt \in Probes : Collides(buildings, carved, pt[1], pt[2])
    /\ \E c \in carved : ~Collides(buildings, carved, c[1], c[2])
    /\ \E pt \in EdgeProbes : ~InField(pt[1], pt[2])

\* offsets from an impact point: inside, on and just outside the radius
RimOffsets == {-39, -38, -27, -26, 0, 26, 27, 38, 39}

\* C14: a terrain hit carves the circle of radius EXPLOSION_RADIUS around the
\* impact pixel and appends an explosion there: afterwards no point within
\* the radius is occupied, every point farther away keeps its occupancy, and
\* carving the same circle again changes no point.
C14_TerrainHitCarves ==
    [][ last_event'.kind = "terrain_hit" =>
          LET cx == ToInt(last_event'.x)
              cy == ToInt(last_event'.y)
              near == { << cx + dx, cy + dy >> : dx \in RimOffsets, dy \in RimOffsets }
              again == CarveExplosion(carved', << cx, cy >>)
          IN  /\ Opaque(buildings, carved, cx, cy)
              /\ buildings' = buildings
              /\ Len(explosions') = Len(explosions) + 1
              /\ explosions'[Len(explosions')] = [x |-> cx, y |-> cy, time |-> 0]
              /\ \A pt \in near \cup Probes :
                    LET d2 == (pt[1] - cx) * (pt[1] - cx) + (pt[2] - cy) * (pt[2] - cy)
                    IN  /\ d2 <= EXPLOSION_RADIUS * EXPLOSION_RADIUS =>
                              ~Opaque(buildings', carved', pt[1], pt[2])
                        /\ d2 > EXPLOSION_RADIUS * EXPLOSION_RADIUS =>
                              (Opaque(buildings', carved', pt[1], pt[2])
                                 <=> Opaque(buildings, carved, pt[1], pt[2]))
                        /\ Opaque(buildings', again, pt[1], pt[2])
                              <=> Opaque(buildings', carved', pt[1], pt[2])
      ]_vars

\* a crater whose rim point straight below the impact was building before
C14_Witness ==
    /\ last_event.kind = "terrain_hit"
    /\ LET cx == ToInt(last_event.x)
           cy == ToInt(last_event.y)
       IN  /\ << cx, cy >> \in carved
           /\ Len(explosions) >= 1
           /\ Opaque(buildings, {}, cx, cy + EXPLOSION_RADIUS)
           /\ ~Opaque(buildings, carved, cx, cy + EXPLOSION_RADIUS)
           /\ Opaque(buildings, carved, cx, cy + EXPLOSION_RADIUS + 1)

\* C15: the wind lies in [-MAX_WIND, MAX_WIND] and changes only when a round
\* is set up, where it is one draw of random.uniform; a live projectile
\* carries the wind of its round from its creation to its last tick.
C15_WindPerRound ==
    /\ [](/\ -Px(MAX_WIND) <= wind_speed /\ wind_speed <= Px(MAX_WIND)
          /\ projectile.live => projectile.wind = wind_speed)
    /\ [][ /\ wind_speed' # wind_speed =>
                 /\ RoundJustSetUp'
                 /\ \E seed \in Seeds :
                       wind_speed' =
                          RandUniform(seed, 62, -Px(MAX_WIND), Px(MAX_WIND))
           /\ last_event'.kind \in FireKinds \cup {"out_of_bounds", "terrain_hit",
                                                  "continue", "idle"} =>
                 wind_speed' = wind_speed
           /\ (projectile.live /\ projectile'.live) =>
                 projectile'.wind = projectile.wind
           /\ last_event'.kind = "fired" => projectile'.wind = wind_speed
         ]_vars

\* a projectile in flight in the second round, under a wind that blows
C15_Witness ==
    /\ projectile.live /\ last_event.kind = "continue"
    /\ current_round = 2
    /\ projectile.wind = wind_speed /\ wind_speed # 0

\* the messages handle_fire shows for a request it turns down
ValidationMessages == {"invalid_number", "invalid_range"}

\* C16: every fire request that creates no projectile sets a status message
\* telling the user so, whether it was turned down for its angle or speed,
\* for a projectile already live or for a match already over.
C16_RejectionSurfaced ==
    [][ last_event'.kind \in {"fire_dropped", "fire_refused"} =>
          /\ projectile' = projectile
          /\ status_message'.kind \in ValidationMessages
      ]_vars

\* the skylines of the random streams 1..NumSkylines
SkylineSamples == [seed \in 1..NumSkylines |-> Generate(seed)]

\* the buildings tile [0, W): the first starts at 0, each starts where the one
\* before ends, the last ends at W, widths are in [55, 110] but for the last
Tiles(blds) ==
    /\ Len(blds) >= 1
    /\ blds[1].x = 0
    /\ \A i \in 1..(Len(blds) - 1) :
          /\ blds[i + 1].x = blds[i].x + blds[i].w
          /\ 55 <= blds[i].w /\ blds[i].w <= 110
    /\ blds[Len(blds)].x + blds[Len(blds)].w = SCREEN_WIDTH
    /\ 1 <= blds[Len(blds)].w /\ blds[Len(blds)].w <= 110

\* C17: Skyline.generate ends and leaves at least one building, the buildings
\* tiling the full width with no gap and no overlap, each 55 to 110 wide but
\* for the last, which may be clipped narrower.
C17_SkylineTiles ==
    /\ Tiles(buildings)
    /\ \A seed \in 1..NumSkylines : Tiles(SkylineSamples[seed])

\* a skyline in play whose last building was clipped below 55
C17_Witness ==
    /\ Tiles(buildings)
    /\ buildings[Len(buildings)].w < 55
    /\ Len(buildings) >= 11
    /\ \E seed \in 1..NumSkylines :
          SkylineSamples[seed][Len(SkylineSamples[seed])].w >= 55

\* C18: a miss changes only the turn owner, the projectile, the status
\* message and, for a terrain hit, the craters and the explosions: the round
\* number, both counters, the wind, match_over, the gorillas and the
\* buildings stay; a hit on a gorilla below the threshold adds 1 to the round
\* number and sets up a round: new skyline, gorillas placed on it, wind drawn,
\* no projectile, no explosion.
C18_MissKeepsRound ==
    [][ /\ last_event'.kind = "out_of_bounds" =>
              UNCHANGED << buildings, carved, gorillas, explosions, wind_speed,
                           round_wins, current_round, match_over, scores >>
        /\ last_event'.kind = "terrain_hit" =>
              /\ UNCHANGED << buildings, gorillas, wind_speed, round_wins,
                              current_round, match_over, scores >>
              /\ carved \subseteq carved'
              /\ Cardinality(carved') <= Cardinality(carved) + 1
              /\ Len(explosions') = Len(explosions) + 1
        /\ (last_event'.kind = "gorilla_hit" /\ ~match_over') =>
              /\ current_round' = current_round + 1
              /\ \A i \in 1..2 : round_wins'[i] < 2
              /\ \E seed \in Seeds :
                    /\ buildings' = RoundSetup[seed].buildings
                    /\ gorillas' = RoundSetup[seed].gorillas
                    /\ wind_speed' = RoundSetup[seed].wind_speed
              /\ carved' = {}
              /\ projectile' = NoProjectile
              /\ explosions' = << >>
              /\ UNCHANGED << match_over, scores >>
      ]_vars

\* the third round, set up by a hit that left the counters at 1 each
C18_Witness ==
    /\ last_event.kind = "gorilla_hit" /\ ~match_over
    /\ current_round = 3 /\ round_wins = << 1, 1 >>
    /\ carved = {} /\ explosions = << >> /\ ~projectile.live

\* C19: an accepted throw starts at the throw position of the turn owner's
\* gorilla, with the velocity of the typed angle for player 0 and of 180 minus
\* it for player 1: below 90 degrees the horizontal velocity points at the
\* opponent (positive for player 0, negative for player 1), and the vertical
\* velocity is always upward (negative).
C19_LaunchTowardOpponent ==
    [][ last_event'.kind = "fired" =>
          LET a == last_event'.angle.v
              me == gorillas[current_player + 1]
              other == gorillas[(1 - current_player) + 1]
              facing == IF current_player = 0 THEN 1 ELSE -1
              used == IF current_player = 1 THEN 180 - a ELSE a
              speed == ClampSpeed(last_event'.speed)
          IN  /\ projectile'.live
              /\ projectile'.x =
                    (me.x + (me.w \div 2) + facing * ((me.w \div 2) + 6)) * Scale
              /\ projectile'.y = (me.y + 12) * Scale
              /\ projectile'.vx = RoundDiv(CosMilli(used) * speed, 1000)
              /\ projectile'.vy = -RoundDiv(SinMilli(used) * speed, 1000)
              /\ projectile'.vy < 0
              /\ a < 90 =>
                    /\ IF current_player = 0 THEN projectile'.vx > 0
                       ELSE projectile'.vx < 0
                    /\ (other.x - me.x) * projectile'.vx > 0
      ]_vars

\* player 1 has just thrown at 60 degrees or less: leftward and upward
C19_Witness ==
    /\ last_event.kind = "fired" /\ projectile.live
    /\ current_player = 1
    /\ last_event.angle.v <= 60
    /\ projectile.vx < 0 /\ projectile.vy < 0

\* C20: the throw of player 0 at speed 320 and angle 45 with wind 0,
\* integrated at one frame time of 16 to 200 ms: y falls strictly on the first
\* tick and on every tick up to one apex, rises strictly on every tick after
\* it, x grows on every tick, and from the launch height down x is strictly
\* beyond the launch x.
C20_ArcOfThrow ==
    [][ (projectile.live /\ projectile'.live) =>
          LET launch == ThrowPosition(gorillas[1], 0)
          IN  /\ projectile'.y # projectile.y
              /\ last_event.kind = "fired" => projectile'.y < projectile.y
              /\ projectile'.y > projectile.y <=> projectile'.vy > 0
              /\ projectile.vy > 0 => projectile'.y > projectile.y
              /\ projectile'.x > projectile.x
              /\ projectile'.y >= launch.y * Scale =>
                    projectile'.x > launch.x * Scale
      ]_vars

\* past the apex and back at the launch height, at 16 ms a frame
C20_Witness ==
    /\ projectile.live /\ last_event.kind = "continue"
    /\ frame_time = 16 /\ wind_speed = 0
    /\ projectile.vy > 0
    /\ projectile.y >= ThrowPosition(gorillas[1], 0).y * Scale
    /\ projectile.x > ThrowPosition(gorillas[1], 0).x * Scale

\* C21: each counter is 0, 1 or 2, at most one is 2, match_over holds exactly
\* when one is 2, and the round number is 1 plus the sum of the counters
\* while the match is on and that sum once it is over: never above 3.
C21_CountersAndRounds ==
    /\ \A i \in 1..2 : round_wins[i] \in {0, 1, 2}
    /\ ~(round_wins[1] = 2 /\ round_wins[2] = 2)
    /\ match_over <=> (\E i \in 1..2 : round_wins[i] = 2)
    /\ ~match_over => current_round = 1 + round_wins[1] + round_wins[2]
    /\ match_over => current_round = round_wins[1] + round_wins[2]
    /\ current_round \in 1..3

\* a match won in its third round
C21_Witness ==
    /\ match_over /\ current_round = 3
    /\ round_wins[1] + round_wins[2] = 3
    /\ last_event.kind = "gorilla_hit"

\* C22: while match_over holds no projectile is live, so a tick then is idle:
\* it changes neither the turn owner, the counters, the round number nor the
\* score store; and every miss happens with match_over false and flips the
\* turn, so the match_over test of switch_turn never keeps a turn.
C22_NoFlightAfterMatch ==
    /\ [](match_over => ~projectile.live)
    /\ [][ /\ (match_over /\ last_event'.kind \in UpdateKinds \cup {"idle"}) =>
                 /\ last_event'.kind = "idle"
                 /\ match_over'
                 /\ UNCHANGED << current_player, round_wins, current_round,
                                 scores, status_message >>
           /\ last_event'.kind \in {"out_of_bounds", "terrain_hit"} =>
                 /\ ~match_over /\ ~match_over'
                 /\ current_player' = 1 - current_player
                 /\ status_message' # status_message
         ]_vars

\* frames after the end of a match: the last explosion has faded
C22_Witness ==
    /\ match_over /\ running /\ ~projectile.live
    /\ last_event.kind = "idle"
    /\ explosions = << >>
    /\ scores.kind = "array" /\ Len(scores.entries) >= 1

\* the gorillas placed on the skylines of the random streams 1..NumSkylines
PlacementSamples ==
    [seed \in 1..NumSkylines |-> PlaceGorillas(seed, SkylineSamples[seed])]

\* two gorillas: the first on a building centred left of 45% of the width,
\* the second on one centred right of 55% of it, their boxes apart
PlacedWell(blds, gors) ==
    /\ Len(gors) = 2
    /\ \E i \in 1..Len(blds) :
          /\ CenterX(blds[i]) * 100 < SCREEN_WIDTH * 45
          /\ gors[1] = GorillaOn(blds[i])
    /\ \E i \in 1..Len(blds) :
          /\ CenterX(blds[i]) * 100 > SCREEN_WIDTH * 55
          /\ gors[2] = GorillaOn(blds[i])
    /\ gors[1].x + gors[1].w <= gors[2].x
    /\ \A idx \in 1..2 : gors[idx].y >= 0 /\ gors[idx].y + gors[idx].h <= SCREEN_HEIGHT

\* C23: the round in play has two gorillas, player 0's on a building centred
\* left of 45% of the width and player 1's on one centred right of 55% of it;
\* their boxes do not overlap, so no tested pixel is in both; and on every
\* generated skyline both candidate lists are non-empty, so the halves of
\* the building list are never used.
C23_GorillasPlaced ==
    /\ PlacedWell(buildings, gorillas)
    /\ LeftCandidates(buildings) # << >> /\ RightCandidates(buildings) # << >>
    /\ Cardinality(HitIndexes(gorillas, ToInt(last_event.x), ToInt(last_event.y))) <= 1
    /\ Cardinality(HitIndexes(gorillas, ToInt(projectile.x), ToInt(projectile.y))) <= 1
    /\ \A seed \in 1..NumSkylines :
          /\ LeftCandidates(SkylineSamples[seed]) # << >>
          /\ RightCandidates(SkylineSamples[seed]) # << >>
          /\ PlacedWell(SkylineSamples[seed], PlacementSamples[seed])

\* the second round just set up, with a choice of buildings on either side
\* and the boxes at least 78 pixels apart
C23_Witness ==
    /\ RoundJustSetUp /\ current_round = 2
    /\ PlacedWell(buildings, gorillas)
    /\ Len(LeftCandidates(buildings)) >= 2 /\ Len(RightCandidates(buildings)) >= 2
    /\ gorillas[2].x - (gorillas[1].x + gorillas[1].w) >= 78

====
